---- MODULE Spec2Model ----
(***************************************************************************)
(* Model of packages/core/src/render3/query.ts: the query trackers         *)
(* (LQueries_), their predicate chains, the nested value arrays that the   *)
(* predicates fill, and the dirty-tracked QueryList_.                      *)
(*                                                                         *)
(* JavaScript arrays are objects with identity, so the value arrays live   *)
(* in a heap `arr` (array id -> sequence of items); an item is either a    *)
(* matched value or a reference to a nested array.  Predicates are records *)
(* whose `values` field is an array id; a chain (the `next` links) is a    *)
(* sequence of predicates, most recently registered first.                 *)
(***************************************************************************)
EXTENDS Integers, Sequences, FiniteSets, TLC

VARIABLES
    arr,      \* heap of value arrays: arr[a] is the content of array a
    lists,    \* the QueryList_ objects: dirty, _values, _valuesTree
    trk,      \* the LQueries_ objects: shallow and deep predicate chains
    scopes,   \* the driver's handles: which tracker serves which scope
    decl,     \* per list: the scope and the descend flag it was declared with
    nodes,    \* the nodes given to addNode so far
    ngDevMode,\* whether the debug assertions are compiled in
    last,     \* the last call and what it returned
    twin      \* the same calls made on trackers whose child() always clones

vars == <<arr, lists, trk, scopes, decl, nodes, ngDevMode, last, twin>>

(* ------------------------------ bounds -------------------------------- *)
\* lists, scopes and nodes together, per specification
MaxObjects == 6
MaxContainerObjects == 8
MaxMatchObjects == 4

(* ------------------------- values and items --------------------------- *)
\* directive index standing for "the element itself" (localNames' -1)
ElementIdx == -1
\* getIdxOf...: null result
NoIdx == -2

ArrItem(a) == [k |-> "arr", n |-> a, d |-> 0]
ValItem(n, d) == [k |-> "val", n |-> n, d |-> d]
NullVal == [k |-> "null", n |-> 0, d |-> 0]

NoType == "none"
\* a read strategy that is an instance of ReadFromInjectorFn
ReadFn == "fn"
NoRead == "none"

RECURSIVE flatten(_, _)
flatten(h, s) ==
    IF s = <<>> THEN <<>>
    ELSE LET x == Head(s) IN
         (IF x.k = "arr" THEN flatten(h, h[x.n]) ELSE <<x>>) \o flatten(h, Tail(s))

\* Array.prototype.splice(index, 0, item) for index >= 0
SpliceIn(s, index, item) ==
    LET i == IF index > Len(s) THEN Len(s) ELSE index IN
    SubSeq(s, 1, i) \o <<item>> \o SubSeq(s, i + 1, Len(s))

\* Array.prototype.splice(index, 1): the array that is left
SpliceOut(s, index) ==
    IF index < Len(s) THEN SubSeq(s, 1, index) \o SubSeq(s, index + 2, Len(s)) ELSE s

\* Array.prototype.splice(index, 1): the removed elements
SpliceRemoved(s, index) ==
    IF index < Len(s) THEN <<s[index + 1]>> ELSE <<>>

(* ------------------------------ nodes --------------------------------- *)
\* A node: its slice of the directive table (type and diPublic of each
\* definition), its localNames pairs, and whether a ReadFromInjectorFn
\* resolves to a value on it.
Dir(t, pub) == [type |-> t, diPublic |-> pub]

NodeShapes ==
    { [dirs |-> <<Dir("Foo", TRUE)>>, localNames |-> <<>>, res |-> TRUE],
      [dirs |-> <<Dir("Foo", FALSE)>>, localNames |-> <<>>, res |-> TRUE],
      [dirs |-> <<Dir("Foo", TRUE)>>, localNames |-> <<<<"a", ElementIdx>>, <<"b", ElementIdx>>>>, res |-> TRUE],
      [dirs |-> <<>>, localNames |-> <<<<"a", ElementIdx>>>>, res |-> FALSE],
      [dirs |-> <<>>, localNames |-> <<>>, res |-> FALSE],
      [dirs |-> <<Dir("Foo", TRUE), Dir("Bar", TRUE)>>, localNames |-> <<<<"b", 1>>, <<"a", ElementIdx>>>>, res |-> TRUE] }

RECURSIVE IdxFrom(_, _, _)
IdxFrom(dirs, type, i) ==
    IF i > Len(dirs) THEN NoIdx
    ELSE IF dirs[i].diPublic /\ dirs[i].type = type THEN i - 1
    ELSE IdxFrom(dirs, type, i + 1)

geIdxOfMatchingDirective(node, type) == IdxFrom(node.dirs, type, 1)

RECURSIVE NameFrom(_, _, _)
NameFrom(names, selector, i) ==
    IF i > Len(names) THEN NoIdx
    ELSE IF names[i][1] = selector THEN names[i][2]
    ELSE NameFrom(names, selector, i + 1)

getIdxOfMatchingSelector(node, selector) == NameFrom(node.localNames, selector, 1)

\* ReadFromInjectorFn.read: the lookup collaborator; a value or null
CustomRead(node, directiveIdx) ==
    IF node.res THEN ValItem(node.id, directiveIdx) ELSE NullVal

\* a read that takes the instance at directiveIdx whatever the token is
readAtDirectiveIdx(node, read, directiveIdx) ==
    IF read = ReadFn THEN CustomRead(node, directiveIdx)
    ELSE IF directiveIdx # NoIdx THEN ValItem(node.id, directiveIdx) ELSE NullVal

readFromNodeInjector(node, read, directiveIdx) ==
    IF read = ReadFn THEN CustomRead(node, directiveIdx)
    ELSE LET matchingIdx == geIdxOfMatchingDirective(node, read) IN
         IF matchingIdx # NoIdx THEN ValItem(node.id, matchingIdx) ELSE NullVal

(* ---------------------------- predicates ------------------------------ *)
\* what query() may be called with: a type or a list of names, and a read
QuerySpecs ==
    { [type |-> "Foo", selector |-> <<>>, read |-> NoRead],
      [type |-> "Foo", selector |-> <<>>, read |-> "Bar"],
      [type |-> NoType, selector |-> <<"a", "b">>, read |-> ReadFn],
      [type |-> NoType, selector |-> <<"a">>, read |-> NoRead] }

createPredicate(list, q, valuesTree) ==
    [list |-> list, type |-> q.type, selector |-> q.selector, read |-> q.read,
     values |-> valuesTree]

\* the running state of one call: the heap, the lists, whether it threw
St(h, ls, threw) == [arr |-> h, lists |-> ls, threw |-> threw]

setDirty(ls, l) == [ls EXCEPT ![l].dirty = TRUE]

\* addMatch that forgets to mark the list
addMatchNoDirty(st, predicate, matchingValue) ==
    St([st.arr EXCEPT ![predicate.values] = Append(@, matchingValue)], st.lists, st.threw)

addMatch(st, predicate, matchingValue) ==
    St([st.arr EXCEPT ![predicate.values] = Append(@, matchingValue)],
       setDirty(st.lists, predicate.list), st.threw)

\* the by-type branch marking the list before the read result is known
AddByTypeDirtyFirst(st, predicate, node) ==
    LET directiveIdx == geIdxOfMatchingDirective(node, predicate.type) IN
    IF directiveIdx = NoIdx THEN st
    ELSE LET result == readFromNodeInjector(node,
                          IF predicate.read # NoRead THEN predicate.read ELSE predicate.type,
                          directiveIdx) IN
         IF result # NullVal THEN addMatch(st, predicate, result)
         ELSE St(st.arr, setDirty(st.lists, predicate.list), st.threw)

\* the by-type branch of add()
AddByType(st, predicate, node) ==
    LET directiveIdx == geIdxOfMatchingDirective(node, predicate.type) IN
    IF directiveIdx = NoIdx THEN st
    ELSE LET result == readFromNodeInjector(node,
                          IF predicate.read # NoRead THEN predicate.read ELSE predicate.type,
                          directiveIdx) IN
         IF result # NullVal THEN addMatch(st, predicate, result) ELSE st

\* the by-selector loop leaving at the first name that gives a value
RECURSIVE AddBySelectorFirst(_, _, _, _)
AddBySelectorFirst(st, predicate, node, i) ==
    IF st.threw \/ i > Len(predicate.selector) THEN st
    ELSE LET directiveIdx == getIdxOfMatchingSelector(node, predicate.selector[i]) IN
         IF directiveIdx = NoIdx THEN AddBySelectorFirst(st, predicate, node, i + 1)
         ELSE IF ngDevMode /\ predicate.read = NoRead
              THEN St(st.arr, st.lists, TRUE)
         ELSE LET result == readFromNodeInjector(node, predicate.read, directiveIdx) IN
              IF result # NullVal THEN addMatch(st, predicate, result)
              ELSE AddBySelectorFirst(st, predicate, node, i + 1)

\* the by-selector branch of add(): the loop over selector[i]
RECURSIVE AddBySelector(_, _, _, _)
AddBySelector(st, predicate, node, i) ==
    IF st.threw \/ i > Len(predicate.selector) THEN st
    ELSE LET directiveIdx == getIdxOfMatchingSelector(node, predicate.selector[i]) IN
         IF directiveIdx = NoIdx THEN AddBySelector(st, predicate, node, i + 1)
         ELSE IF ngDevMode /\ predicate.read = NoRead
              THEN St(st.arr, st.lists, TRUE)
         ELSE LET result == readFromNodeInjector(node, predicate.read, directiveIdx) IN
              AddBySelector(IF result # NullVal THEN addMatch(st, predicate, result) ELSE st,
                            predicate, node, i + 1)

AddOne(st, predicate, node) ==
    IF predicate.type # NoType THEN AddByType(st, predicate, node)
    ELSE AddBySelector(st, predicate, node, 1)

\* add that stops after the first predicate of the chain
addHeadOnly(st, chain, node) ==
    IF st.threw \/ chain = <<>> THEN st ELSE AddOne(st, Head(chain), node)

\* add(predicate, node): the walk along the chain
RECURSIVE add(_, _, _)
add(st, chain, node) ==
    IF st.threw \/ chain = <<>> THEN st
    ELSE add(AddOne(st, Head(chain), node), Tail(chain), node)

(* ------------------------------ state --------------------------------- *)
NoScope == 0
NoTracker == 0

Tracker(shallow, deep) == [shallow |-> shallow, deep |-> deep]
Scope(t, par, kind) == [t |-> t, par |-> par, kind |-> kind, live |-> TRUE, views |-> <<>>]
\* a call: the operation, the scope or list it was made on, its argument, what it
\* returned, whether it threw, how many change notifications it emitted, and
\* whether it repeats the call before it
Call(op, s, i, ret, threw) ==
    [op |-> op, s |-> s, i |-> i, ret |-> ret, threw |-> threw, emits |-> 0,
     again |-> FALSE]

\* the arrays, lists and trackers as they are, with the tracker of each scope
Twin == [arr |-> arr, lists |-> lists, trk |-> trk,
         st |-> [s \in 1..Len(scopes) |-> scopes[s].t]]

\* A new LQueries_ for the root scope, no query declared yet.  The build mode
\* is fixed here because only the by-selector branch of add() reads it to a
\* different outcome; InitMatch below leaves it open.
Init ==
    /\ arr = <<>>
    /\ lists = <<>>
    /\ trk = <<Tracker(<<>>, <<>>)>>
    /\ scopes = <<Scope(1, NoScope, "root")>>
    /\ decl = <<>>
    /\ nodes = <<>>
    /\ ngDevMode = TRUE
    /\ last = Call("init", 0, 0, 0, FALSE)
    /\ twin = Twin

\* scopes the driver builds nodes, queries and containers in
BuildScopes ==
    {s \in 1..Len(scopes) :
        scopes[s].live /\ scopes[s].t # NoTracker /\ scopes[s].kind # "container"}
\* scopes that are the per-container trackers
ContainerScopes == {s \in 1..Len(scopes) : scopes[s].live /\ scopes[s].kind = "container"}

(* ----------------------------- operations ----------------------------- *)
\* LQueries_.track
track(t, list, q, descend, valuesTree) ==
    IF descend
    THEN [t EXCEPT !.deep = <<createPredicate(list, q, valuesTree)>> \o @]
    ELSE [t EXCEPT !.shallow = <<createPredicate(list, q, valuesTree)>> \o @]

\* query(): a new QueryList_ tracked on the current scope's tracker
Query(s, q, descend) ==
    /\ LET l == Len(lists) + 1
           a == Len(arr) + 1 IN
       /\ arr' = Append(arr, <<>>)
       /\ lists' = Append(lists, [dirty |-> TRUE, values |-> <<>>, tree |-> a])
       /\ trk' = [trk EXCEPT ![scopes[s].t] = track(@, l, q, descend, a)]
       /\ decl' = Append(decl, [scope |-> s, descend |-> descend])
       /\ last' = Call("query", s, l, l, FALSE)
    /\ UNCHANGED <<scopes, nodes, ngDevMode>>

\* reset that leaves the list dirty
resetStaysDirty(ls, l, h) ==
    [ls EXCEPT ![l].values = flatten(h, h[ls[l].tree])]

\* QueryList_.reset, given the heap the value tree lives in
reset(ls, l, h) ==
    [ls EXCEPT ![l].values = flatten(h, h[ls[l].tree]), ![l].dirty = FALSE]

\* the previous call was a queryRefresh of the same list
Again(l) == last.op = "queryRefresh" /\ last.i = l

\* queryRefresh that does not look at the dirty flag
queryRefreshAlways(l) ==
    /\ lists' = reset(lists, l, arr)
    /\ last' = [Call("queryRefresh", 0, l, 1, FALSE) EXCEPT !.emits = 1, !.again = Again(l)]
    /\ UNCHANGED <<arr, trk, scopes, decl, nodes, ngDevMode>>

\* queryRefresh
queryRefresh(l) ==
    /\ IF lists[l].dirty
       THEN /\ lists' = reset(lists, l, arr)
            /\ last' = [Call("queryRefresh", 0, l, 1, FALSE) EXCEPT !.emits = 1,
                                                                  !.again = Again(l)]
       ELSE /\ lists' = lists
            /\ last' = [Call("queryRefresh", 0, l, 0, FALSE) EXCEPT !.again = Again(l)]
    /\ UNCHANGED <<arr, trk, scopes, decl, nodes, ngDevMode>>

\* child whose new tracker also carries the shallow chain
childKeepsShallow(ts, t) ==
    IF ts[t].deep = <<>> THEN [trk |-> ts, ret |-> NoTracker]
    ELSE IF ts[t].shallow = <<>> THEN [trk |-> ts, ret |-> t]
    ELSE [trk |-> Append(ts, Tracker(ts[t].shallow, ts[t].deep)), ret |-> Len(ts) + 1]

\* LQueries_.child: the tracker returned (NoTracker for null) and the trackers
child(ts, t) ==
    IF ts[t].deep = <<>> THEN [trk |-> ts, ret |-> NoTracker]
    ELSE IF ts[t].shallow = <<>> THEN [trk |-> ts, ret |-> t]
    ELSE [trk |-> Append(ts, Tracker(<<>>, ts[t].deep)), ret |-> Len(ts) + 1]

\* the driver asks the tracker of scope s for the tracker of a nested scope
Child(s) ==
    /\ LET r == child(trk, scopes[s].t) IN
       /\ trk' = r.trk
       /\ scopes' = IF r.ret = NoTracker THEN scopes
                    ELSE Append(scopes, Scope(r.ret, s, "child"))
       /\ last' = Call("child", s, 0, r.ret, FALSE)
    /\ UNCHANGED <<arr, lists, decl, nodes, ngDevMode>>

\* container loop whose clones keep the array of their original
RECURSIVE containerLoopShared(_, _, _)
containerLoopShared(h, predicates, result) ==
    IF predicates = <<>> THEN [arr |-> h, result |-> result]
    ELSE LET predicate == Head(predicates)
             containerValues == Len(h) + 1 IN
         containerLoopShared([Append(h, <<>>) EXCEPT ![predicate.values] = Append(@, ArrItem(containerValues))],
                             Tail(predicates), <<predicate>> \o result)

\* the while loop of LQueries_.container
RECURSIVE containerLoop(_, _, _)
containerLoop(h, predicates, result) ==
    IF predicates = <<>> THEN [arr |-> h, result |-> result]
    ELSE LET predicate == Head(predicates)
             containerValues == Len(h) + 1
             clonedPredicate == [predicate EXCEPT !.values = containerValues] IN
         containerLoop([Append(h, <<>>) EXCEPT ![predicate.values] = Append(@, ArrItem(containerValues))],
                       Tail(predicates), <<clonedPredicate>> \o result)

\* container whose tracker also carries the receiver's shallow chain
containerKeepsShallow(h, ts, t) ==
    LET r == containerLoop(h, ts[t].deep, <<>>) IN
    IF r.result # <<>>
    THEN [arr |-> r.arr, trk |-> Append(ts, Tracker(ts[t].shallow, r.result)), ret |-> Len(ts) + 1]
    ELSE [arr |-> r.arr, trk |-> ts, ret |-> NoTracker]

\* LQueries_.container
container(h, ts, t) ==
    LET r == containerLoop(h, ts[t].deep, <<>>) IN
    IF r.result # <<>>
    THEN [arr |-> r.arr, trk |-> Append(ts, Tracker(<<>>, r.result)), ret |-> Len(ts) + 1]
    ELSE [arr |-> r.arr, trk |-> ts, ret |-> NoTracker]

Container(s) ==
    /\ LET r == container(arr, trk, scopes[s].t) IN
       /\ arr' = r.arr
       /\ trk' = r.trk
       /\ scopes' = IF r.ret = NoTracker THEN scopes
                    ELSE Append(scopes, Scope(r.ret, s, "container"))
       /\ last' = Call("container", s, 0, r.ret, FALSE)
    /\ UNCHANGED <<lists, decl, nodes, ngDevMode>>

\* enterView loop that pushes the view's array at the end
RECURSIVE enterViewLoopPush(_, _, _, _)
enterViewLoopPush(h, predicates, index, result) ==
    IF predicates = <<>> THEN [arr |-> h, result |-> result]
    ELSE LET predicate == Head(predicates)
             viewValues == Len(h) + 1
             clonedPredicate == [predicate EXCEPT !.values = viewValues] IN
         enterViewLoopPush([Append(h, <<>>) EXCEPT ![predicate.values] = Append(@, ArrItem(viewValues))],
                           Tail(predicates), index, <<clonedPredicate>> \o result)

\* the while loop of LQueries_.enterView
RECURSIVE enterViewLoop(_, _, _, _)
enterViewLoop(h, predicates, index, result) ==
    IF predicates = <<>> THEN [arr |-> h, result |-> result]
    ELSE LET predicate == Head(predicates)
             viewValues == Len(h) + 1
             clonedPredicate == [predicate EXCEPT !.values = viewValues] IN
         enterViewLoop([Append(h, <<>>) EXCEPT ![predicate.values] = SpliceIn(@, index, ArrItem(viewValues))],
                       Tail(predicates), index, <<clonedPredicate>> \o result)

\* LQueries_.enterView
enterView(h, ts, t, index) ==
    LET r == enterViewLoop(h, ts[t].deep, index, <<>>) IN
    IF r.result # <<>>
    THEN [arr |-> r.arr, trk |-> Append(ts, Tracker(<<>>, r.result)), ret |-> Len(ts) + 1]
    ELSE [arr |-> r.arr, trk |-> ts, ret |-> NoTracker]

\* a view is inserted at position index of the container of scope c
EnterView(c, index) ==
    /\ LET r == enterView(arr, trk, scopes[c].t, index)
           v == Len(scopes) + 1 IN
       /\ arr' = r.arr
       /\ trk' = r.trk
       /\ scopes' = Append([scopes EXCEPT ![c].views = SpliceIn(@, index, v)],
                           Scope(r.ret, c, "view"))
       /\ last' = Call("enterView", c, index, r.ret, FALSE)
    /\ UNCHANGED <<lists, decl, nodes, ngDevMode>>

\* truthiness of removed[0].length: a nested array that is not empty
HasLength(h, item) == item.k = "arr" /\ Len(h[item.n]) > 0

\* removeView loop that always removes the first slot
RECURSIVE removeViewLoopFirst(_, _, _)
removeViewLoopFirst(st, predicates, index) ==
    IF st.threw \/ predicates = <<>> THEN st
    ELSE LET predicate == Head(predicates)
             removed == SpliceRemoved(st.arr[predicate.values], 0)
             h == [st.arr EXCEPT ![predicate.values] = SpliceOut(@, 0)] IN
         IF Len(removed) # 1 THEN St(h, st.lists, TRUE)
         ELSE removeViewLoopFirst(St(h,
                                     IF HasLength(h, removed[1])
                                     THEN setDirty(st.lists, predicate.list) ELSE st.lists,
                                     FALSE),
                                  Tail(predicates), index)

\* removeView loop that stops after the first predicate of the chain
removeViewLoopHeadOnly(st, predicates, index) ==
    IF st.threw \/ predicates = <<>> THEN st
    ELSE LET predicate == Head(predicates)
             removed == SpliceRemoved(st.arr[predicate.values], index)
             h == [st.arr EXCEPT ![predicate.values] = SpliceOut(@, index)] IN
         IF Len(removed) # 1 THEN St(h, st.lists, TRUE)
         ELSE St(h,
                 IF HasLength(h, removed[1])
                 THEN setDirty(st.lists, predicate.list) ELSE st.lists,
                 FALSE)

\* the while loop of LQueries_.removeView
RECURSIVE removeViewLoop(_, _, _)
removeViewLoop(st, predicates, index) ==
    IF st.threw \/ predicates = <<>> THEN st
    ELSE LET predicate == Head(predicates)
             removed == SpliceRemoved(st.arr[predicate.values], index)
             h == [st.arr EXCEPT ![predicate.values] = SpliceOut(@, index)] IN
         IF Len(removed) # 1 THEN St(h, st.lists, TRUE)
         ELSE removeViewLoop(St(h,
                                IF HasLength(h, removed[1])
                                THEN setDirty(st.lists, predicate.list) ELSE st.lists,
                                FALSE),
                             Tail(predicates), index)

\* LQueries_.removeView
removeView(h, ls, ts, t, index) == removeViewLoop(St(h, ls, FALSE), ts[t].deep, index)

RECURSIVE IsUnder(_, _, _)
\* scope s is scope v or nested in it
IsUnder(sc, s, v) ==
    IF s = v THEN TRUE
    ELSE IF s = NoScope THEN FALSE
    ELSE IsUnder(sc, sc[s].par, v)

\* the view at position index of the container of scope c is destroyed
RemoveView(c, index) ==
    /\ LET r == removeView(arr, lists, trk, scopes[c].t, index)
           v == scopes[c].views[index + 1] IN
       /\ arr' = r.arr
       /\ lists' = r.lists
       /\ scopes' = [s \in 1..Len(scopes) |->
                       IF s = c THEN [scopes[s] EXCEPT !.views = SpliceOut(@, index)]
                       ELSE IF IsUnder(scopes, s, v) THEN [scopes[s] EXCEPT !.live = FALSE]
                       ELSE scopes[s]]
       /\ last' = Call("removeView", c, index, v, r.threw)
    /\ UNCHANGED <<trk, decl, nodes, ngDevMode>>

\* LQueries_.addNode
addNode(h, ls, ts, t, node) ==
    add(add(St(h, ls, FALSE), ts[t].shallow, node), ts[t].deep, node)

\* a node of the given shape is created in scope s
AddNode(s, shape) ==
    /\ LET id == Len(nodes) + 1
           node == [id |-> id, scope |-> s, dirs |-> shape.dirs,
                    localNames |-> shape.localNames, res |-> shape.res]
           r == addNode(arr, lists, trk, scopes[s].t, node) IN
       /\ arr' = r.arr
       /\ lists' = r.lists
       /\ nodes' = Append(nodes, node)
       /\ last' = Call("addNode", s, id, 0, r.threw)
    /\ UNCHANGED <<trk, scopes, decl, ngDevMode>>

\* what the driver has created so far: lists, scopes and nodes
Objects == Len(lists) + Len(scopes) + Len(nodes)

\* queries by type over nodes that carry the type in a diPublic directive
TypeQueries == {q \in QuerySpecs : q.type = "Foo" /\ q.read = NoRead}
FooShapes == {n \in NodeShapes : n.localNames = <<>> /\ n.dirs # <<>> /\ n.dirs[1].diPublic}

\* the driver's calls in full, over queries by type
Next ==
    \/ \E s \in BuildScopes, q \in TypeQueries, descend \in BOOLEAN :
          Objects < MaxObjects /\ Query(s, q, descend) /\ UNCHANGED twin
    \/ \E s \in BuildScopes : Objects < MaxObjects /\ Child(s) /\ UNCHANGED twin
    \/ \E s \in BuildScopes : Objects < MaxObjects /\ Container(s) /\ UNCHANGED twin
    \/ \E c \in ContainerScopes : \E index \in 0..Len(scopes[c].views) :
          Objects < MaxObjects /\ EnterView(c, index) /\ UNCHANGED twin
    \/ \E c \in ContainerScopes : \E index \in 0..(Len(scopes[c].views) - 1) :
          RemoveView(c, index) /\ UNCHANGED twin
    \/ \E s \in BuildScopes, shape \in FooShapes : Objects < MaxObjects /\ AddNode(s, shape) /\ UNCHANGED twin
    \/ \E l \in 1..Len(lists) : queryRefresh(l) /\ UNCHANGED twin

Spec == Init /\ [][Next]_vars

\* the state after query(Foo, true) at the root
InitDeep ==
    /\ arr = <<<<>>>>
    /\ lists = <<[dirty |-> TRUE, values |-> <<>>, tree |-> 1]>>
    /\ trk = <<track(Tracker(<<>>, <<>>), 1, CHOOSE q \in TypeQueries : TRUE, TRUE, 1)>>
    /\ scopes = <<Scope(1, NoScope, "root")>>
    /\ decl = <<[scope |-> 1, descend |-> TRUE]>>
    /\ nodes = <<>>
    /\ ngDevMode = TRUE
    /\ last = Call("query", 1, 1, 1, FALSE)
    /\ twin = Twin

\* containers, views and nodes under one deep query
NextContainers ==
    \/ \E s \in BuildScopes : Objects < MaxContainerObjects /\ Container(s) /\ UNCHANGED twin
    \/ \E c \in ContainerScopes : \E index \in 0..Len(scopes[c].views) :
          Objects < MaxContainerObjects /\ EnterView(c, index) /\ UNCHANGED twin
    \/ \E c \in ContainerScopes : \E index \in 0..(Len(scopes[c].views) - 1) :
          RemoveView(c, index) /\ UNCHANGED twin
    \/ \E s \in BuildScopes, shape \in FooShapes :
          Objects < MaxContainerObjects /\ AddNode(s, shape) /\ UNCHANGED twin
    \/ \E l \in 1..Len(lists) : queryRefresh(l) /\ UNCHANGED twin

SpecContainers == InitDeep /\ [][NextContainers]_vars

\* every kind of query and node, in either build mode, without containers
InitMatch ==
    /\ arr = <<>>
    /\ lists = <<>>
    /\ trk = <<Tracker(<<>>, <<>>)>>
    /\ scopes = <<Scope(1, NoScope, "root")>>
    /\ decl = <<>>
    /\ nodes = <<>>
    /\ ngDevMode \in BOOLEAN
    /\ last = Call("init", 0, 0, 0, FALSE)
    /\ twin = Twin

NextMatch ==
    \/ \E s \in BuildScopes, q \in QuerySpecs, descend \in BOOLEAN :
          Objects < MaxMatchObjects /\ Query(s, q, descend) /\ UNCHANGED twin
    \/ \E s \in BuildScopes : Objects < MaxMatchObjects /\ Child(s) /\ UNCHANGED twin
    \/ \E s \in BuildScopes, shape \in NodeShapes : Objects < MaxMatchObjects /\ AddNode(s, shape) /\ UNCHANGED twin
    \/ \E l \in 1..Len(lists) : queryRefresh(l) /\ UNCHANGED twin

SpecMatch == InitMatch /\ [][NextMatch]_vars

(* ------------------- the trackers without the reuse ------------------- *)
\* child() that clones the deep chain whenever there is one
childAlwaysNew(ts, t) ==
    IF ts[t].deep = <<>> THEN [trk |-> ts, ret |-> NoTracker]
    ELSE [trk |-> Append(ts, Tracker(<<>>, ts[t].deep)), ret |-> Len(ts) + 1]

\* the calls of the driver, made on w: w.st[s] is the tracker w has for scope s;
\* `made` says whether the driver went on to create the nested scope
twinQuery(w, s, q, descend) ==
    LET l == Len(w.lists) + 1
        a == Len(w.arr) + 1 IN
    [arr |-> Append(w.arr, <<>>),
     lists |-> Append(w.lists, [dirty |-> TRUE, values |-> <<>>, tree |-> a]),
     trk |-> [w.trk EXCEPT ![w.st[s]] = track(@, l, q, descend, a)],
     st |-> w.st]

twinChild(w, s, made) ==
    LET r == childAlwaysNew(w.trk, w.st[s]) IN
    [w EXCEPT !.trk = r.trk, !.st = IF made THEN Append(@, r.ret) ELSE @]

twinContainer(w, s, made) ==
    LET r == container(w.arr, w.trk, w.st[s]) IN
    [w EXCEPT !.arr = r.arr, !.trk = r.trk, !.st = IF made THEN Append(@, r.ret) ELSE @]

twinEnterView(w, c, index) ==
    LET r == enterView(w.arr, w.trk, w.st[c], index) IN
    [w EXCEPT !.arr = r.arr, !.trk = r.trk, !.st = Append(@, r.ret)]

twinRemoveView(w, c, index) ==
    LET r == removeView(w.arr, w.lists, w.trk, w.st[c], index) IN
    [w EXCEPT !.arr = r.arr, !.lists = r.lists]

twinAddNode(w, s, node) ==
    LET r == addNode(w.arr, w.lists, w.trk, w.st[s], node) IN
    [w EXCEPT !.arr = r.arr, !.lists = r.lists]

twinRefresh(w, l) ==
    IF w.lists[l].dirty THEN [w EXCEPT !.lists = reset(w.lists, l, w.arr)] ELSE w

\* the driver's calls of Next, made on both implementations side by side
NextTwin ==
    \/ \E s \in BuildScopes, q \in TypeQueries, descend \in BOOLEAN :
          /\ Objects < MaxObjects
          /\ Query(s, q, descend)
          /\ twin' = twinQuery(twin, s, q, descend)
    \/ \E s \in BuildScopes :
          /\ Objects < MaxObjects
          /\ Child(s)
          /\ twin' = twinChild(twin, s, Len(scopes') > Len(scopes))
    \/ \E s \in BuildScopes :
          /\ Objects < MaxObjects
          /\ Container(s)
          /\ twin' = twinContainer(twin, s, Len(scopes') > Len(scopes))
    \/ \E c \in ContainerScopes : \E index \in 0..Len(scopes[c].views) :
          /\ Objects < MaxObjects
          /\ EnterView(c, index)
          /\ twin' = twinEnterView(twin, c, index)
    \/ \E c \in ContainerScopes : \E index \in 0..(Len(scopes[c].views) - 1) :
          /\ RemoveView(c, index)
          /\ twin' = twinRemoveView(twin, c, index)
    \/ \E s \in BuildScopes, shape \in FooShapes :
          /\ Objects < MaxObjects
          /\ AddNode(s, shape)
          /\ twin' = twinAddNode(twin, s, nodes'[Len(nodes')])
    \/ \E l \in 1..Len(lists) : queryRefresh(l) /\ twin' = twinRefresh(twin, l)

SpecTwin == Init /\ [][NextTwin]_vars

(* ============================== claims ================================ *)
Lists == 1..Len(lists)
Flat(l) == flatten(arr, arr[lists[l].tree])
\* the chains addNode walks for scope s
Chains(s) == trk[scopes[s].t].shallow \o trk[scopes[s].t].deep
\* the deep chain of the tracker of scope c
Deep(c) == trk[scopes[c].t].deep
InSeq(sq) == {sq[i] : i \in 1..Len(sq)}
\* the scope the node of a matched value was created in
ScopeOf(x) == nodes[x.n].scope

\* C1: a list that is not dirty holds exactly the depth-first flattening of
\* its value tree: no call changes the flattened tree and leaves the list clean.
C1_CleanListIsFlattenedTree ==
    \A l \in Lists : ~lists[l].dirty => lists[l].values = Flat(l)

\* a clean list with a value in it, after a view was removed
C1_Witness ==
    \E l \in Lists :
        /\ ~lists[l].dirty
        /\ lists[l].values # <<>>
        /\ \E s \in 1..Len(scopes) : ~scopes[s].live

\* the slot that removeView(index) is about to remove from predicate p
Slot(p, index) == arr[p.values][index + 1]

\* C2: removeView(index) leaves the dirty flag of a deep predicate's list as it
\* was when the removed view matched nothing, in itself or in any scope nested
\* in it, and leaves the flag true when the removed view held a matched value.
C2_MinimalInvalidation ==
    [][(last'.op = "removeView" /\ ~last'.threw) =>
          \A p \in InSeq(Deep(last'.s)) :
              IF flatten(arr, <<Slot(p, last'.i)>>) = <<>>
              THEN lists'[p.list].dirty = lists[p.list].dirty
              ELSE lists'[p.list].dirty]_vars

\* C3: addNode, container, enterView and removeView turn a clean list dirty
\* exactly when they change the flattening of its value tree.
C3_DirtyIffVisibleChange ==
    [][last'.op \in {"addNode", "container", "enterView", "removeView"} =>
          \A l \in Lists :
              ~lists[l].dirty =>
                  (lists'[l].dirty <=> flatten(arr', arr'[lists'[l].tree]) # Flat(l))]_vars

\* C4: a list is dirty when query() returns it and stays dirty until it is
\* refreshed; queryRefresh of a dirty list stores the flattened tree, clears
\* dirty, emits one notification and returns true, and no queryRefresh emits
\* more than one.
C4_RefreshOfDirtyList ==
    [][/\ last'.op = "query" => lists'[last'.i].dirty
       /\ \A l \in Lists :
             /\ (lists[l].dirty /\ ~(last'.op = "queryRefresh" /\ last'.i = l))
                    => lists'[l].dirty
             /\ (lists[l].dirty /\ last'.op = "queryRefresh" /\ last'.i = l)
                    => /\ lists'[l].values = Flat(l)
                       /\ ~lists'[l].dirty
                       /\ last'.emits = 1
                       /\ last'.ret = 1
       /\ last'.emits <= 1]_vars

\* the first queryRefresh of a list that matched nothing returned true
C4_Witness ==
    /\ last.op = "queryRefresh"
    /\ last.ret = 1
    /\ last.emits = 1
    /\ lists[last.i].values = <<>>
    /\ nodes # <<>>

\* C5: a queryRefresh that directly follows a queryRefresh of the same list
\* returns false, emits nothing and changes neither the lists nor the arrays.
C5_RefreshIdempotence ==
    [][(last'.op = "queryRefresh" /\ Again(last'.i)) =>
          /\ last'.ret = 0
          /\ last'.emits = 0
          /\ lists' = lists
          /\ arr' = arr]_vars

\* a second queryRefresh in a row on a list that holds values
C5_Witness ==
    /\ last.op = "queryRefresh"
    /\ last.again
    /\ last.ret = 0
    /\ lists[last.i].values # <<>>

\* scope a is a proper ancestor of scope s
ProperAncestor(a, s) == a # s /\ IsUnder(scopes, s, a)

\* C6: a node added through the tracker of a scope is never tested against a
\* shallow predicate that was registered at a proper ancestor of that scope.
C6_ShallowNonPropagation ==
    last.op = "addNode" =>
        \A p \in InSeq(trk[scopes[last.s].t].shallow) :
            ~ProperAncestor(decl[p.list].scope, last.s)

Containers == {c \in 1..Len(scopes) : scopes[c].kind = "container"}

\* C7: the trackers of two containers hold different value arrays, and
\* enterView, removeView and addNode through one container (its tracker or
\* the scopes of its views) leave the arrays and the values under any
\* container that is neither inside nor around it as they were.
C7_PrivateValueTrees ==
    /\ [](\A c1, c2 \in Containers :
             c1 # c2 => \A p1 \in InSeq(Deep(c1)), p2 \in InSeq(Deep(c2)) :
                            p1.values # p2.values)
    /\ [][\A c1, c2 \in Containers :
             (/\ c1 # c2
              /\ ~IsUnder(scopes, c1, c2)
              /\ ~IsUnder(scopes, c2, c1)
              /\ \/ last'.op \in {"enterView", "removeView"} /\ last'.s = c1
                 \/ last'.op = "addNode" /\ IsUnder(scopes, last'.s, c1))
             => \A p \in InSeq(Deep(c2)) :
                   /\ arr'[p.values] = arr[p.values]
                   /\ flatten(arr', arr'[p.values]) = flatten(arr, arr[p.values])]_vars

\* a view with a match was removed from one container while a sibling
\* container holds a match of its own
C7_Witness ==
    /\ last.op = "removeView"
    /\ \E n \in 1..Len(nodes) : nodes[n].scope = last.ret
    /\ \E c2 \in Containers :
          /\ c2 # last.s
          /\ scopes[c2].par = scopes[last.s].par
          /\ \E p \in InSeq(Deep(c2)) : flatten(arr, arr[p.values]) # <<>>

\* the position among the views of container c of the view that scope s is
\* in, 0 when it is in none of them
ViewPos(c, s) ==
    LET K == {k \in 1..Len(scopes[c].views) : IsUnder(scopes, s, scopes[c].views[k])} IN
    IF K = {} THEN 0 ELSE CHOOSE k \in K : TRUE

\* C8: the values of a refreshed list that were matched in the views of a
\* container appear in the order of the views' positions in that container,
\* whatever the order in which the views were entered.
C8_InsertionOrdering ==
    \A l \in Lists :
        ~lists[l].dirty =>
            \A c \in ContainerScopes : \A i, j \in 1..Len(lists[l].values) :
                LET pi == ViewPos(c, ScopeOf(lists[l].values[i]))
                    pj == ViewPos(c, ScopeOf(lists[l].values[j])) IN
                (i < j /\ pi > 0 /\ pj > 0) => pi <= pj

\* a refreshed list with one value from each of two views, the view at
\* position 0 entered after the view at position 1
C8_Witness ==
    \E l \in Lists, c \in ContainerScopes :
        /\ ~lists[l].dirty
        /\ Len(scopes[c].views) = 2
        /\ scopes[c].views[1] > scopes[c].views[2]
        /\ Len(lists[l].values) = 2
        /\ ViewPos(c, ScopeOf(lists[l].values[1])) = 1
        /\ ViewPos(c, ScopeOf(lists[l].values[2])) = 2

\* C9: removeView takes out of the flattened tree of each deep predicate's
\* list exactly the values matched under the removed view, keeping the others
\* in order, and leaves the list dirty when it took any; so a refreshed list
\* declared in a scope that still exists holds no value of a removed view.
C9_ViewRemoval ==
    /\ [](\A l \in Lists :
             (~lists[l].dirty /\ scopes[decl[l].scope].live) =>
                 \A i \in 1..Len(lists[l].values) :
                     scopes[ScopeOf(lists[l].values[i])].live)
    /\ [][(last'.op = "removeView" /\ ~last'.threw) =>
             \A p \in InSeq(Deep(last'.s)) :
                 LET F == Flat(p.list)
                     Kept(x) == ~IsUnder(scopes, ScopeOf(x), last'.ret) IN
                 /\ flatten(arr', arr'[lists'[p.list].tree]) = SelectSeq(F, Kept)
                 /\ (\E i \in 1..Len(F) : ~Kept(F[i])) => lists'[p.list].dirty]_vars

\* view 0 of two single-match views was removed and the list refreshed: it
\* holds the one value of the view that is left
C9_Witness ==
    /\ last.op = "queryRefresh"
    /\ last.ret = 1
    /\ Len(lists[last.i].values) = 1
    /\ \E c \in ContainerScopes :
          /\ Len(scopes[c].views) = 1
          /\ ViewPos(c, ScopeOf(lists[last.i].values[1])) = 1
          /\ \E n \in 1..Len(nodes) :
                /\ scopes[nodes[n].scope].kind = "view"
                /\ scopes[nodes[n].scope].par = c
                /\ ~scopes[nodes[n].scope].live
                /\ nodes[n].dirs # <<>>
                /\ nodes[n].scope < scopes[c].views[1]

Count(sq, x) == Cardinality({i \in 1..Len(sq) : sq[i] = x})
\* how many values of array sq come from node n
FromNode(sq, n) == Cardinality({i \in 1..Len(sq) : sq[i].k = "val" /\ sq[i].n = n})
\* the node carries a directive of type t, public or not
CarriesType(node, t) == \E i \in 1..Len(node.dirs) : node.dirs[i].type = t
PublicType(node, t) ==
    \E i \in 1..Len(node.dirs) : node.dirs[i].type = t /\ node.dirs[i].diPublic
CarriesName(node, name) ==
    \E j \in 1..Len(node.localNames) : node.localNames[j][1] = name
\* what the read of predicate p resolves to for the i-th name of its selector
NameResult(node, p, i) ==
    LET idx == getIdxOfMatchingSelector(node, p.selector[i]) IN
    IF idx = NoIdx THEN NullVal ELSE readFromNodeInjector(node, p.read, idx)
\* what the read of a by-type predicate p resolves to
TypeResult(node, p) ==
    readFromNodeInjector(node, IF p.read # NoRead THEN p.read ELSE p.type,
                         geIdxOfMatchingDirective(node, p.type))

NoValue(node, p) ==
    IF p.type # NoType
    THEN ~CarriesType(node, p.type) \/ TypeResult(node, p) = NullVal
    ELSE \A i \in 1..Len(p.selector) :
             ~CarriesName(node, p.selector[i]) \/ NameResult(node, p, i) = NullVal

\* C11: addNode leaves the value array and the dirty flag of the list of every
\* predicate the node gives nothing to as they were; when the node gives
\* nothing to any predicate of the tracker, no array and no list changes.
C11_NoMatchFrame ==
    [][last'.op = "addNode" =>
          LET node == nodes'[last'.i]
              chain == InSeq(Chains(last'.s)) IN
          /\ \A p \in chain :
                 NoValue(node, p) => /\ arr'[p.values] = arr[p.values]
                                     /\ lists'[p.list].dirty = lists[p.list].dirty
          /\ (\A p \in chain : NoValue(node, p)) => (arr' = arr /\ lists' = lists)]_vars

\* a node carrying Foo but not Bar was added to a tracker holding a clean
\* predicate that reads Bar and another predicate that received the node
C11_Witness ==
    /\ last.op = "addNode"
    /\ \E p \in InSeq(Chains(last.s)), q \in InSeq(Chains(last.s)) :
          /\ p.type # NoType
          /\ CarriesType(nodes[last.i], p.type)
          /\ NoValue(nodes[last.i], p)
          /\ ~lists[p.list].dirty
          /\ FromNode(arr[q.values], last.i) = 1

\* C12: in debug mode, an addNode that evaluates a by-selector predicate
\* registered without a read fails its assertion, whatever names the node
\* carries: it never returns normally.
C12_MissingReadFailsFast ==
    (/\ ngDevMode
     /\ last.op = "addNode"
     /\ \E p \in InSeq(Chains(last.s)) : p.type = NoType /\ p.read = NoRead)
    => last.threw

\* C13: whatever calls the driver makes, every list has the same dirty flag
\* and the same refreshed values with the trackers whose child() reuses the
\* receiver as with the trackers whose child() always clones the deep chain.
C13_ChildReuseInvisible ==
    \A l \in Lists :
        /\ lists[l].dirty = twin.lists[l].dirty
        /\ lists[l].values = twin.lists[l].values

\* C14: a query registered on the tracker of a scope obtained through child()
\* leaves the shallow and the deep chain of the parent scope's tracker as they
\* were.
C14_ScopeConfinement ==
    [][(last'.op = "query" /\ scopes[last'.s].kind = "child") =>
          LET parent == scopes[scopes[last'.s].par].t IN
          trk'[parent] = trk[parent]]_vars

\* C15: child() returns no tracker exactly when the deep chain is empty, the
\* receiver itself when the deep chain is not empty and the shallow chain is,
\* and otherwise a new tracker with the receiver's deep chain and an empty
\* shallow chain; it changes no existing tracker, no array and no list.
C15_ChildResult ==
    [][last'.op = "child" =>
          LET t == scopes[last'.s].t IN
          /\ (last'.ret = NoTracker) <=> (trk[t].deep = <<>>)
          /\ (trk[t].deep # <<>> /\ trk[t].shallow = <<>>) =>
                 (last'.ret = t /\ trk' = trk)
          /\ (trk[t].deep # <<>> /\ trk[t].shallow # <<>>) =>
                 /\ last'.ret \notin 1..Len(trk)
                 /\ trk'[last'.ret] = Tracker(<<>>, trk[t].deep)
          /\ \A u \in 1..Len(trk) : trk'[u] = trk[u]
          /\ arr' = arr
          /\ lists' = lists]_vars

\* child() was called on a tracker holding a shallow and a deep predicate and
\* returned a new tracker
C15_Witness ==
    /\ last.op = "child"
    /\ last.ret # NoTracker
    /\ last.ret # scopes[last.s].t
    /\ trk[scopes[last.s].t].shallow # <<>>
    /\ trk[last.ret] = Tracker(<<>>, trk[scopes[last.s].t].deep)

\* the array a with the item at position index (from 0) taken out
Without(a, index) == SubSeq(a, 1, index) \o SubSeq(a, index + 2, Len(a))

\* C16: container() and enterView(index) return no tracker and change no
\* array when the receiver's deep chain is empty; otherwise they return a new
\* tracker with an empty shallow chain and one clone per deep predicate, the
\* clone having its original's list, type, selector and read and a new empty
\* array of its own, which is put into the original's array (at the end for
\* container(), at position index for enterView); nothing else changes.
C16_ClonesDeepChain ==
    [][last'.op \in {"container", "enterView"} =>
          LET t == scopes[last'.s].t
              D == trk[t].deep
              n == Len(D)
              pos(p) == IF last'.op = "container" THEN Len(arr[p.values]) ELSE last'.i IN
          /\ \A u \in 1..Len(trk) : trk'[u] = trk[u]
          /\ lists' = lists
          /\ \A a \in 1..Len(arr) :
                 (\A i \in 1..n : D[i].values # a) => arr'[a] = arr[a]
          /\ IF n = 0
             THEN last'.ret = NoTracker /\ arr' = arr /\ trk' = trk
             ELSE /\ last'.ret \notin 1..Len(trk)
                  /\ trk'[last'.ret].shallow = <<>>
                  /\ Len(trk'[last'.ret].deep) = n
                  /\ Len(arr') = Len(arr) + n
                  /\ \A i \in 1..n :
                         \E j \in 1..n :
                             LET clone == trk'[last'.ret].deep[j] IN
                             /\ [clone EXCEPT !.values = D[i].values] = D[i]
                             /\ clone.values \notin 1..Len(arr)
                             /\ arr'[clone.values] = <<>>
                             /\ Len(arr'[D[i].values]) = Len(arr[D[i].values]) + 1
                             /\ arr'[D[i].values][pos(D[i]) + 1] = ArrItem(clone.values)
                             /\ Without(arr'[D[i].values], pos(D[i])) = arr[D[i].values]]_vars

\* enterView(0) on a container tracker with two deep predicates and a view
\* already in it: each predicate's array has the new view's array in front
C16_Witness ==
    /\ last.op = "enterView"
    /\ last.i = 0
    /\ Len(scopes[last.s].views) = 2
    /\ Len(Deep(last.s)) = 2
    /\ \A p \in InSeq(Deep(last.s)) :
           \E q \in InSeq(trk[last.ret].deep) :
               q.list = p.list /\ arr[p.values][1] = ArrItem(q.values)

\* C17: in a container whose tracker received only enterView and removeView
\* calls with an index in range, the array of every deep predicate has one
\* entry per view now in the container, the i-th entry being the array owned
\* by the clone of that predicate made for the i-th view; and no removeView
\* has failed its assertion that one entry was removed.
C17_ViewIndexAlignment ==
    /\ \A c \in ContainerScopes :
           \A p \in InSeq(Deep(c)) :
               /\ Len(arr[p.values]) = Len(scopes[c].views)
               /\ \A i \in 1..Len(scopes[c].views) :
                      \E q \in InSeq(Deep(scopes[c].views[i])) :
                          /\ q.list = p.list
                          /\ arr[p.values][i] = ArrItem(q.values)
    /\ last.op = "removeView" => ~last.threw

\* removeView on a container with two deep predicates has removed the older
\* of two views and left the other
C17_Witness ==
    /\ last.op = "removeView"
    /\ Len(Deep(last.s)) = 2
    /\ Len(scopes[last.s].views) = 1
    /\ scopes[last.s].views[1] > last.ret

\* the token a by-type predicate reads: its read type, or its own type
Token(p) == IF p.read # NoRead THEN p.read ELSE p.type
\* the stored instance of the node's first directive of type t, and of its
\* first diPublic directive of type t
InstanceOf(node, t) ==
    ValItem(node.id, (CHOOSE i \in 1..Len(node.dirs) :
                         /\ node.dirs[i].type = t
                         /\ \A j \in 1..(i - 1) : node.dirs[j].type # t) - 1)
PublicInstanceOf(node, t) ==
    ValItem(node.id, (CHOOSE i \in 1..Len(node.dirs) :
                         /\ node.dirs[i].type = t /\ node.dirs[i].diPublic
                         /\ \A j \in 1..(i - 1) :
                                ~(node.dirs[j].type = t /\ node.dirs[j].diPublic)) - 1)
\* the by-type predicates of a chain that read a type token
TokenReaders(chain) == {p \in InSeq(chain) : p.type # NoType /\ p.read # ReadFn}

NonNull(x) == x # NullVal
Given(node, p) ==
    IF p.type # NoType
    THEN IF PublicType(node, p.type) /\ TypeResult(node, p) # NullVal
         THEN <<TypeResult(node, p)>> ELSE <<>>
    ELSE SelectSeq([i \in 1..Len(p.selector) |-> NameResult(node, p, i)], NonNull)

====
